---- MODULE Spec2Model ----
(***************************************************************************)
(* The scoped statement builder of ukg: KStmt (src/python/KStmt.py) and    *)
(* the control-flow constructs built on it (src/python/ukg.py).            *)
(*                                                                         *)
(* A statement node is a tuple whose first element is the node kind:       *)
(*   <<"Stmt", n>>                   a concrete statement emitted by the   *)
(*                                   tracing client (n identifies it)      *)
(*   <<"Evaluate", 0>>               _stmt.Evaluate(0), the no-op          *)
(*   <<"Block", a, b>>               _stmt.Block(a, b), a two-statement    *)
(*                                   sequence                              *)
(*   <<"IfThenElse", c, t, e>>       e is a statement or NoneS             *)
(*   <<"While", c, body>>                                                  *)
(*   <<"Break">>                                                           *)
(*   <<"AttrStmt", buf, sup, body>>  the attach_scope annotation           *)
(*   <<"Return", n>>                 _stmt.Return of the n-th statement    *)
(*   <<"KernelDef", body, ret_void>> the function definition def_ emits    *)
(* A deferred wrapper (a Python callable in a scope list) is               *)
(*   <<"Wrap", buf, sup>>            lambda x: AttrStmt(buf, .., sup, x)   *)
(*                                                                         *)
(* An operation that raises is modelled by its effect up to the raise and  *)
(* the exception's kind in err; the client may catch it and go on.         *)
(***************************************************************************)
EXTENDS Integers, Sequences, FiniteSets, TLC

\* ---------------------------------------------------------------- bounds
\* KStmt objects a trace constructs
MaxBlocks == 3
\* KStmts, statements, control constructs and tensor reads of a trace,
\* together
MaxOps == 5
\* KStmt objects, and KStmts and tensor reads together, of a trace that
\* only opens, reads and closes KStmts (DepSpec)
MaxDepBlocks == 4
MaxDepOps == 6
\* arguments of a function defined with def_
MaxArgs == 2

Blocks == 1..(IF MaxBlocks > MaxDepBlocks THEN MaxBlocks ELSE MaxDepBlocks)

VARIABLES
    current,     \* KStmt._current: the living KStmts, newest last
    ks,          \* the attributes of every KStmt object
    KStmt_ops,   \* Schedule.KStmt_ops
    last_KStmts, \* Schedule.last_KStmts
    ctx,         \* the `with` statements the client has entered and not left
    err,         \* outcome of the last operation: "ok" or the exception
    last,        \* the last operation: what it was and what it saw
    nblk,        \* KStmt objects constructed so far
    nstmt,       \* statements / wrappers the client has emitted so far
    ncons,       \* control constructs invoked so far
    nread        \* tensor reads across KStmts traced so far

vars ==
    <<current, ks, KStmt_ops, last_KStmts, ctx, err, last, nblk, nstmt, ncons,
      nread>>

\* the trace may still grow
CanAct == nblk + nstmt + ncons + nread < MaxOps

\* the trace of KStmts and reads may still grow
DepCanAct == nblk + nread < MaxDepOps

\* ------------------------------------------------------- statement nodes
NoneS == <<"None">>
Evaluate0 == <<"Evaluate", 0>>
BreakStmt == <<"Break">>
Block(a, b) == <<"Block", a, b>>
IfThenElse(c, t, e) == <<"IfThenElse", c, t, e>>
While(c, body) == <<"While", c, body>>
AttachScope(buf, sup) == <<"Wrap", buf, sup>>
KernelDef(body, ret_void) == <<"KernelDef", body, ret_void>>

\* callable(s): the entry is a deferred wrapper, not a statement
callable(s) == s[1] = "Wrap"

\* Call that wraps Evaluate(0) whatever statement it is given
CallOnNoOp(s, stmt) == <<"AttrStmt", s[2], s[3], <<"Evaluate", 0>>>>

\* s(stmt) for a deferred wrapper s
Call(s, stmt) == <<"AttrStmt", s[2], s[3], stmt>>

\* isinstance(s, _stmt.IfThenElse)
IsIfThenElse(s) == s[1] = "IfThenElse"

\* ------------------------------------------------------------- pop_stmt
\* FoldStep with the two statements of the sequence swapped
FoldStepRev(s, stmt) ==
    IF callable(s) THEN Call(s, stmt) ELSE Block(stmt, s)

\* FoldStep without the callable test: a wrapper is sequenced like a
\* statement
FoldStepNoWrap(s, stmt) ==
    Block(s, stmt)

\* one step of `for s in reversed(stmts[:-1])`
FoldStep(s, stmt) ==
    IF callable(s) THEN Call(s, stmt) ELSE Block(s, stmt)

RECURSIVE FoldFrom(_, _, _)
FoldFrom(stmts, i, stmt) ==
    IF i = 0 THEN stmt
    ELSE FoldFrom(stmts, i - 1, FoldStep(stmts[i], stmt))

\* pop_stmt that appends Evaluate(0) to an empty list only, not after a
\* trailing wrapper
pop_stmtPadEmpty(list) ==
    LET stmts == IF list = <<>> THEN Append(list, Evaluate0) ELSE list
    IN  FoldFrom(stmts, Len(stmts) - 1, stmts[Len(stmts)])

\* the statement pop_stmt returns for the popped list
pop_stmt(list) ==
    LET stmts == IF list = <<>> \/ callable(list[Len(list)])
                 THEN Append(list, Evaluate0)
                 ELSE list
    IN  FoldFrom(stmts, Len(stmts) - 1, stmts[Len(stmts)])

\* --------------------------------------------------------- replace_else
RECURSIVE replace_else(_, _)
replace_else(if_stmt, else_stmt) ==
    IF IsIfThenElse(if_stmt[4])
    THEN IfThenElse(if_stmt[2], if_stmt[3], replace_else(if_stmt[4], else_stmt))
    ELSE IfThenElse(if_stmt[2], if_stmt[3], else_stmt)

\* ------------------------------------------------------------ __init__
\* (module is the attribute _module, which only def_ sets)
NewKStmt ==
    [ state          |-> "new",
      stmt_stack     |-> << <<>> >>,
      has_break      |-> FALSE,
      has_return     |-> FALSE,
      module         |-> FALSE,
      for_level      |-> 0,
      for_ID         |-> 0,
      parent         |-> 0,
      subKStmts      |-> <<>>,
      input_KStmts   |-> {},
      lhs_tensors    |-> {},
      last_subKStmts |-> {},
      body           |-> NoneS ]

\* the elements of a sequence
SeqSet(s) == {s[i] : i \in 1..Len(s)}

Top(s) == s[Len(s)]
Front(s) == SubSeq(s, 1, Len(s) - 1)

\* stmt_stack with entry e appended to its last list
Appended(stack, e) ==
    [stack EXCEPT ![Len(stack)] = Append(@, e)]

\* what `last` records of an operation: its name, the KStmt it acted on, the
\* loop name passed (for_) and the name of the loop variable created (var,
\* <<>> when none was), the argument positions def_ collected (lhs), the
\* depth of that KStmt's stmt_stack before it (pre)
\* and before the entry of the construct it closes (depth), the list
\* pop_stmt popped, the statement pop_stmt returned (fold) and the entry the
\* operation emitted (res)
NoOp ==
    [op |-> "init", blk |-> 0, name |-> "", var |-> <<>>, lhs |-> {},
     pre |-> 0, depth |-> 0, list |-> <<>>, fold |-> NoneS, res |-> NoneS]

Init ==
    /\ current = <<>>
    /\ ks = [b \in Blocks |-> NewKStmt]
    /\ KStmt_ops = <<>>
    /\ last_KStmts = {}
    /\ ctx = <<>>
    /\ err = "ok"
    /\ last = NoOp
    /\ nblk = 0
    /\ nstmt = 0
    /\ ncons = 0
    /\ nread = 0

\* ---------------------------------------------------------- __enter__
\* KStmt(...) is constructed and entered by a `with`; is_module: the `with`
\* is the one of def_, which marks the KStmt as a module
Entered(opname, is_module) ==
    /\ LET s == nblk + 1 IN
        /\ nblk' = s
        /\ ks' = [ks EXCEPT ![s].state = "open",
                            ![s].module = is_module,
                            ![s].parent = IF current = <<>> THEN 0
                                          ELSE Top(current)]
        /\ current' = Append(current, s)
        /\ ctx' = Append(ctx, [kind |-> "KStmt", blk |-> s, cond |-> 0,
                               prev |-> NoneS, depth |-> 0])
        /\ err' = "ok"
        /\ last' = [NoOp EXCEPT !.op = opname, !.blk = s]
    /\ UNCHANGED <<KStmt_ops, last_KStmts, nstmt, ncons, nread>>

\* `with KStmt(...) as s:` constructs a KStmt and enters it
Enter ==
    /\ nblk < MaxBlocks
    /\ CanAct
    /\ Entered("__enter__", FALSE)

\* Enter in a trace that only opens, reads and closes KStmts
DepEnter ==
    /\ nblk < MaxDepBlocks
    /\ DepCanAct
    /\ Entered("__enter__", FALSE)

\* get_current(): KStmt._current[-1]; IndexError when no KStmt is living
get_current == Top(current)

\* Raises that reports no exception
RaisesNothing(e, opname) ==
    /\ err' = "ok"
    /\ last' = [NoOp EXCEPT !.op = opname]
    /\ UNCHANGED <<current, ks, KStmt_ops, last_KStmts, ctx, nblk, nstmt,
                   ncons, nread>>

\* an operation that raises e having changed nothing
Raises(e, opname) ==
    /\ err' = e
    /\ last' = [NoOp EXCEPT !.op = opname,
                            !.blk = IF current = <<>> THEN 0 ELSE get_current,
                            !.pre = IF current = <<>> THEN 0
                                    ELSE Len(ks[get_current].stmt_stack)]
    /\ UNCHANGED <<current, ks, KStmt_ops, last_KStmts, ctx, nblk, nstmt,
                   ncons, nread>>

\* ---------------------------------------------------------------- emit
\* s.emit(stmt) where s is the current KStmt: a statement traced by the
\* client (the n-th statement of the trace is <<"Stmt", n>>)
Emit ==
    /\ CanAct
    /\ \/ /\ current = <<>>
          /\ Raises("NoOpenBlock", "emit")
       \/ /\ current # <<>>
          /\ ks[get_current].has_break
          /\ Raises("IllegalEmitAfterBreak", "emit")
       \/ /\ current # <<>>
          /\ ~ks[get_current].has_break
          /\ LET e == <<"Stmt", nstmt + 1>> IN
                /\ ks' = [ks EXCEPT ![get_current].stmt_stack = Appended(@, e)]
                /\ last' = [NoOp EXCEPT !.op = "emit", !.blk = get_current,
                                        !.res = e]
          /\ nstmt' = nstmt + 1
          /\ err' = "ok"
          /\ UNCHANGED <<current, KStmt_ops, last_KStmts, ctx, nblk, ncons,
                         nread>>

\* a tensor of another KStmt x (closed, or still open around the reader) is
\* read while the current KStmt is traced: the tensor API adds x to the
\* current KStmt's input_KStmts
Read ==
    /\ current # <<>>
    /\ \E x \in Blocks :
        /\ ks[x].state # "new"
        /\ x # get_current
        /\ x \notin ks[get_current].input_KStmts
        /\ ks' = [ks EXCEPT ![get_current].input_KStmts = @ \cup {x}]
        /\ last' = [NoOp EXCEPT !.op = "read", !.blk = get_current]
    /\ err' = "ok"
    /\ nread' = nread + 1
    /\ UNCHANGED <<current, KStmt_ops, last_KStmts, ctx, nblk, nstmt, ncons>>

ReadFrom ==
    /\ CanAct
    /\ Read

\* the tensors a trace assigns to: placeholder(s, i), the i-th argument of
\* the function whose KStmt is s, for the functions being defined around
\* the current KStmt, and one tensor that is no argument
placeholder(s, i) == <<s, i>>

Assignable ==
    {placeholder(s, i) : s \in {b \in SeqSet(current) : ks[b].module},
                         i \in 1..MaxArgs}
    \cup {placeholder(0, 1)}

\* `t[...] = value` is traced in the current KStmt: the tensor API emits the
\* store (the n-th statement of the trace) and adds t to the KStmt's
\* lhs_tensors
Write ==
    /\ CanAct
    /\ current # <<>>
    /\ ~ks[get_current].has_break
    /\ \E t \in Assignable :
        /\ t \notin ks[get_current].lhs_tensors
        /\ LET e == <<"Stmt", nstmt + 1>> IN
            /\ ks' = [ks EXCEPT ![get_current].stmt_stack = Appended(@, e),
                                ![get_current].lhs_tensors = @ \cup {t}]
            /\ last' = [NoOp EXCEPT !.op = "write", !.blk = get_current,
                                    !.res = e]
    /\ nstmt' = nstmt + 1
    /\ err' = "ok"
    /\ UNCHANGED <<current, KStmt_ops, last_KStmts, ctx, nblk, ncons, nread>>

\* ReadFrom in a trace that only opens, reads and closes KStmts
DepRead ==
    /\ DepCanAct
    /\ Read

\* ----------------------------------------------------------------- if_
\* entering a control construct: what the `with` statement remembers
Scope(kind, b, c, prev) ==
    [kind |-> kind, blk |-> b, cond |-> c, prev |-> prev,
     depth |-> Len(ks[b].stmt_stack)]

\* ukg_stmt.stmt_stack.append([])
Pushed(stack) == Append(stack, <<>>)

if_ ==
    /\ CanAct
    /\ \/ /\ current = <<>>
          /\ Raises("NoOpenBlock", "if_")
       \/ /\ current # <<>>
          /\ LET b == get_current
                 c == ncons + 1
             IN  /\ ks' = [ks EXCEPT ![b].stmt_stack = Pushed(@)]
                 /\ ctx' = Append(ctx, Scope("if_", b, c, NoneS))
                 /\ last' = [NoOp EXCEPT !.op = "if_", !.blk = b,
                                         !.pre = Len(ks[b].stmt_stack)]
          /\ ncons' = ncons + 1
          /\ err' = "ok"
          /\ UNCHANGED <<current, KStmt_ops, last_KStmts, nblk, nstmt, nread>>

\* the statement an exit callback emits after pop_stmt and has_break = False
ExitEmit(c, opname, stmt) ==
    LET b == c.blk
        list == Top(ks[b].stmt_stack)
        rest == Front(ks[b].stmt_stack)
    IN  /\ ks' = [ks EXCEPT ![b].stmt_stack = Appended(rest, stmt),
                            ![b].has_break = FALSE]
        /\ last' = [NoOp EXCEPT !.op = opname, !.blk = b,
                                !.pre = Len(ks[b].stmt_stack),
                                !.depth = c.depth, !.list = list,
                                !.fold = pop_stmt(list), !.res = stmt]
        /\ ctx' = Front(ctx)
        /\ err' = "ok"
        /\ UNCHANGED <<current, KStmt_ops, last_KStmts, nblk, nstmt, ncons,
                       nread>>

\* if_._exit_cb
if_exit ==
    /\ ctx # <<>>
    /\ Top(ctx).kind = "if_"
    /\ LET c == Top(ctx)
           stmt == pop_stmt(Top(ks[c.blk].stmt_stack))
       IN  ExitEmit(c, "if_exit", IfThenElse(c.cond, stmt, NoneS))

\* --------------------------------------------------------------- else_
\* the last entry of the current scope, when there is one
HasPrev(b) == Top(ks[b].stmt_stack) # <<>>
Prev(b) == Top(Top(ks[b].stmt_stack))

\* truth value of prev.else_case: None is false, a statement node is true
ElseCaseSet(prev) == prev[4] # NoneS

\* ElseRefuses without the test of prev.else_case
ElseRefusesNonIf(prev) ==
    ~IsIfThenElse(prev)

\* `not isinstance(prev, IfThenElse) or prev.else_case`: else_ refuses prev
ElseRefuses(prev) ==
    IF IsIfThenElse(prev) THEN ElseCaseSet(prev) ELSE TRUE

\* `not isinstance(prev, IfThenElse)`: elif_ refuses prev
ElifRefuses(prev) ==
    ~IsIfThenElse(prev)

\* stmt_stack[-1].pop(); stmt_stack.append([])
PopPrevAndPush(stack) ==
    Append([stack EXCEPT ![Len(stack)] = Front(@)], <<>>)

else_ ==
    /\ CanAct
    /\ \/ /\ current = <<>>
          /\ Raises("NoOpenBlock", "else_")
       \/ /\ current # <<>>
          /\ IF HasPrev(get_current) THEN ElseRefuses(Prev(get_current))
                                      ELSE TRUE
          /\ Raises("ElseWithoutIf", "else_")
       \/ /\ current # <<>>
          /\ HasPrev(get_current)
          /\ ~ElseRefuses(Prev(get_current))
          /\ LET b == get_current IN
                 /\ ks' = [ks EXCEPT ![b].stmt_stack = PopPrevAndPush(@)]
                 /\ ctx' = Append(ctx, Scope("else_", b, 0, Prev(b)))
                 /\ last' = [NoOp EXCEPT !.op = "else_", !.blk = b,
                                         !.pre = Len(ks[b].stmt_stack)]
          /\ ncons' = ncons + 1
          /\ err' = "ok"
          /\ UNCHANGED <<current, KStmt_ops, last_KStmts, nblk, nstmt, nread>>

\* else_._exit_cb
else_exit ==
    /\ ctx # <<>>
    /\ Top(ctx).kind = "else_"
    /\ LET c == Top(ctx)
           stmt == pop_stmt(Top(ks[c.blk].stmt_stack))
       IN  ExitEmit(c, "else_exit", replace_else(c.prev, stmt))

\* --------------------------------------------------------------- elif_
elif_ ==
    /\ CanAct
    /\ \/ /\ current = <<>>
          /\ Raises("NoOpenBlock", "elif_")
       \/ /\ current # <<>>
          /\ IF HasPrev(get_current) THEN ElifRefuses(Prev(get_current))
                                      ELSE TRUE
          /\ Raises("ElifWithoutIf", "elif_")
       \/ /\ current # <<>>
          /\ HasPrev(get_current)
          /\ ~ElifRefuses(Prev(get_current))
          /\ LET b == get_current
                 c == ncons + 1
             IN  /\ ks' = [ks EXCEPT ![b].stmt_stack = PopPrevAndPush(@)]
                 /\ ctx' = Append(ctx, Scope("elif_", b, c, Prev(b)))
                 /\ last' = [NoOp EXCEPT !.op = "elif_", !.blk = b,
                                         !.pre = Len(ks[b].stmt_stack)]
          /\ ncons' = ncons + 1
          /\ err' = "ok"
          /\ UNCHANGED <<current, KStmt_ops, last_KStmts, nblk, nstmt, nread>>

\* elif_._exit_cb
elif_exit ==
    /\ ctx # <<>>
    /\ Top(ctx).kind = "elif_"
    /\ LET c == Top(ctx)
           stmt == pop_stmt(Top(ks[c.blk].stmt_stack))
       IN  ExitEmit(c, "elif_exit",
                    replace_else(c.prev, IfThenElse(c.cond, stmt, NoneS)))

\* -------------------------------------------------------------- while_
while_ ==
    /\ CanAct
    /\ \/ /\ current = <<>>
          /\ Raises("NoOpenBlock", "while_")
       \/ /\ current # <<>>
          /\ LET b == get_current
                 c == ncons + 1
             IN  /\ ks' = [ks EXCEPT ![b].stmt_stack = Pushed(@),
                                     ![b].for_level = @ + 1]
                 /\ ctx' = Append(ctx, Scope("while_", b, c, NoneS))
                 /\ last' = [NoOp EXCEPT !.op = "while_", !.blk = b,
                                         !.pre = Len(ks[b].stmt_stack)]
          /\ ncons' = ncons + 1
          /\ err' = "ok"
          /\ UNCHANGED <<current, KStmt_ops, last_KStmts, nblk, nstmt, nread>>

\* while_._exit_cb
while_exit ==
    /\ ctx # <<>>
    /\ Top(ctx).kind = "while_"
    /\ LET c == Top(ctx)
           b == c.blk
           list == Top(ks[b].stmt_stack)
           rest == Front(ks[b].stmt_stack)
           stmt == While(c.cond, pop_stmt(list))
       IN  /\ ks' = [ks EXCEPT ![b].stmt_stack = Appended(rest, stmt),
                               ![b].has_break = FALSE,
                               ![b].for_level = @ - 1]
           /\ last' = [NoOp EXCEPT !.op = "while_exit", !.blk = b,
                                   !.pre = Len(ks[b].stmt_stack),
                                   !.depth = c.depth, !.list = list,
                                   !.fold = pop_stmt(list), !.res = stmt]
    /\ ctx' = Front(ctx)
    /\ err' = "ok"
    /\ UNCHANGED <<current, KStmt_ops, last_KStmts, nblk, nstmt, ncons, nread>>

\* ---------------------------------------------------------------- for_
\* The loop-variable names a client passes: the default "i", or its own.
LoopNames == {"i", "x"}

\* for_(begin, end, name): with the default name the counter read is
\* ukg_stmt.nidx, an attribute no KStmt has (__init__ sets for_ID), so
\* KStmt.__getattr__ raises ValueError before anything is changed; with
\* another name the scope is pushed and `KStmt.for_level += 1` then reads
\* for_level on the class, where it is not defined (AttributeError).  No
\* path returns the WithScope, so the exit callback of for_ never runs.
for_ ==
    /\ CanAct
    /\ \E name \in LoopNames :
        \/ /\ current = <<>>
           /\ Raises("NoOpenBlock", "for_")
        \/ /\ current # <<>>
           /\ name = "i"
           /\ err' = "ValueError"
           /\ last' = [NoOp EXCEPT !.op = "for_", !.blk = get_current,
                                   !.name = name,
                                   !.pre = Len(ks[get_current].stmt_stack)]
           /\ UNCHANGED <<current, ks, KStmt_ops, last_KStmts, ctx, nblk,
                          nstmt, ncons, nread>>
        \/ /\ current # <<>>
           /\ name # "i"
           /\ LET b == get_current IN
                 /\ ks' = [ks EXCEPT ![b].stmt_stack = Pushed(@)]
                 /\ last' = [NoOp EXCEPT !.op = "for_", !.blk = b,
                                         !.name = name, !.var = <<name>>,
                                         !.pre = Len(ks[b].stmt_stack)]
           /\ ncons' = ncons + 1
           /\ err' = "AttributeError"
           /\ UNCHANGED <<current, KStmt_ops, last_KStmts, ctx, nblk, nstmt,
                          nread>>

\* -------------------------------------------------------------- break_
break_ ==
    /\ CanAct
    /\ \/ /\ current = <<>>
          /\ Raises("NoOpenBlock", "break_")
       \/ /\ current # <<>>
          /\ ks[get_current].for_level = 0
          /\ Raises("BreakOutsideLoop", "break_")
       \/ /\ current # <<>>
          /\ ks[get_current].for_level # 0
          /\ ks[get_current].has_break
          /\ Raises("IllegalEmitAfterBreak", "break_")
       \/ /\ current # <<>>
          /\ ks[get_current].for_level # 0
          /\ ~ks[get_current].has_break
          /\ LET b == get_current IN
                /\ ks' = [ks EXCEPT ![b].stmt_stack = Appended(@, BreakStmt),
                                    ![b].has_break = TRUE]
                /\ last' = [NoOp EXCEPT !.op = "break_", !.blk = b,
                                        !.res = BreakStmt]
          /\ nstmt' = nstmt + 1
          /\ err' = "ok"
          /\ UNCHANGED <<current, KStmt_ops, last_KStmts, ctx, nblk, ncons,
                         nread>>

\* ------------------------------------------------------------ __exit__
\* SuperInputs without the difference_update
SuperInputsKeepLast(sup_in, sup_last, self_in) ==
    sup_in \cup self_in

\* SuperInputs without the union with self.input_KStmts
SuperInputsOwn(sup_in, sup_last, self_in) ==
    sup_in \ sup_last

\* superKStmt.input_KStmts after the union with self.input_KStmts and the
\* difference_update by superKStmt.last_subKStmts
SuperInputs(sup_in, sup_last, self_in) ==
    (sup_in \cup self_in) \ sup_last

\* SuperLast without the add(self)
SuperLastNoSelf(sup_last, s, self_in) ==
    sup_last \ self_in

\* SuperLast without the difference_update
SuperLastKeepInputs(sup_last, s, self_in) ==
    sup_last \cup {s}

\* superKStmt.last_subKStmts after add(self) and the difference_update by
\* self.input_KStmts
SuperLast(sup_last, s, self_in) ==
    (sup_last \cup {s}) \ self_in

\* CurrentPop that leaves the list as it is
CurrentPopNothing(cur) == cur

\* KStmt._current.pop()
CurrentPop(cur) == Front(cur)

\* ScheduleLast without the `-= self.input_KStmts`
ScheduleLastKeepInputs(sched_last, s, self_in) ==
    sched_last \cup {s}

\* SuperLhs that keeps only the lhs_tensors of the closing KStmt
SuperLhsOfSelf(sup_lhs, self_lhs) ==
    self_lhs

\* superKStmt.lhs_tensors after update(self.lhs_tensors)
SuperLhs(sup_lhs, self_lhs) ==
    sup_lhs \cup self_lhs

\* Schedule.last_KStmts after add(self) and `-= self.input_KStmts`
ScheduleLast(sched_last, s, self_in) ==
    (sched_last \cup {s}) \ self_in

\* KStmt.__exit__ of s, from the attributes k the KStmts have when the
\* `with` block ends; pending is the exception propagating out of the block
\* ("ok" when there is none), rec is what `last` records of the operation
ExitKStmt(s, k, pending, rec) ==
    LET inputs == k[s].last_subKStmts \cup k[s].input_KStmts
        body == pop_stmt(Top(k[s].stmt_stack))
        closed == [k[s] EXCEPT !.input_KStmts = inputs,
                               !.stmt_stack = Front(@),
                               !.body = body,
                               !.state = "closed"]
        living == CurrentPop(current)
    IN  /\ current' = living
        /\ ctx' = Front(ctx)
        /\ last' = rec
        /\ IF living # <<>>
           THEN LET sup == Top(living) IN
                IF k[sup].has_break
                THEN \* superKStmt.emit raises: nothing below line 138 runs
                     /\ ks' = [k EXCEPT ![s] = closed]
                     /\ err' = "IllegalEmitAfterBreak"
                     /\ UNCHANGED <<KStmt_ops, last_KStmts>>
                ELSE /\ ks' = [k EXCEPT
                         ![s] = closed,
                         ![sup] = [@ EXCEPT
                            !.stmt_stack =
                                Appended(@, AttachScope(s, sup)),
                            !.input_KStmts =
                                SuperInputs(@, k[sup].last_subKStmts,
                                            inputs),
                            !.last_subKStmts = SuperLast(@, s, inputs),
                            !.lhs_tensors = SuperLhs(@, k[s].lhs_tensors),
                            !.subKStmts = Append(@, s)]]
                     /\ err' = pending
                     /\ UNCHANGED <<KStmt_ops, last_KStmts>>
           ELSE /\ ks' = [k EXCEPT ![s] = closed]
                /\ KStmt_ops' = Append(KStmt_ops, s)
                /\ last_KStmts' = ScheduleLast(last_KStmts, s, inputs)
                /\ err' = pending
        /\ UNCHANGED <<nblk, nstmt, ncons, nread>>

\* the `with KStmt(...)` block of s ends
Exit ==
    /\ ctx # <<>>
    /\ Top(ctx).kind = "KStmt"
    /\ ~ks[Top(ctx).blk].module
    /\ LET s == Top(ctx).blk
           list == Top(ks[s].stmt_stack)
       IN  ExitKStmt(s, ks, "ok",
                     [NoOp EXCEPT !.op = "__exit__", !.blk = s,
                                  !.pre = Len(ks[s].stmt_stack),
                                  !.list = list, !.fold = pop_stmt(list)])

\* Exit in a trace that only opens, reads and closes KStmts
DepExit ==
    Exit

\* ------------------------------------------------------------- return_
\* KStmt.get_len()
get_len == Len(current)

\* return_(val): the n-th statement of the trace is <<"Return", n>>
return_ ==
    /\ CanAct
    /\ \/ /\ get_len = 0
          /\ Raises("ReturnWithoutReturnType", "return_")
       \/ /\ get_len # 0
          /\ ks[get_current].has_break
          /\ Raises("IllegalEmitAfterBreak", "return_")
       \/ /\ get_len # 0
          /\ ~ks[get_current].has_break
          /\ LET b == get_current
                 e == <<"Return", nstmt + 1>>
             IN /\ ks' = [ks EXCEPT ![b].stmt_stack = Appended(@, e),
                                    ![b].has_return = TRUE]
                /\ last' = [NoOp EXCEPT !.op = "return_", !.blk = b,
                                        !.res = e]
          /\ nstmt' = nstmt + 1
          /\ err' = "ok"
          /\ UNCHANGED <<current, KStmt_ops, last_KStmts, ctx, nblk, ncons,
                         nread>>

\* ---------------------------------------------------------------- def_
\* def_(shapes, ...)(fmodule) up to the call of fmodule (one data type per
\* argument): the KStmt of the function is constructed, entered and marked
\* as a module; the body of fmodule is then traced by the other operations
def_ ==
    /\ nblk < MaxBlocks
    /\ CanAct
    /\ Entered("def_", TRUE)

\* lhs_of that takes every argument position
lhs_ofAll(s, lhs_tensors) ==
    1..MaxArgs

\* lhs: the positions in inputs of the tensors of s.lhs_tensors that are
\* arguments (inputs.index(tensor); the others raise ValueError and are
\* passed over)
lhs_of(s, lhs_tensors) ==
    {i \in 1..MaxArgs : placeholder(s, i) \in lhs_tensors}

\* ret_void: UIntImm("uint1", 0) if s.has_return else UIntImm("uint1", 1)
ret_void(has_return) == ~has_return

\* def_ after fmodule has returned.  lhs and ret_void are computed, the
\* body is folded and the KernelDef emitted into a fresh list (has_break is
\* false here: every construct of the body has closed and cleared it).  Then
\* `s.input_ukg_stmts.clear()` reads an attribute no KStmt has, so
\* KStmt.__getattr__ raises ValueError inside the `with`: __exit__ runs on
\* the way out and the ValueError (or the error of __exit__ itself) leaves
\* def_, which returns no Module.
def_exit ==
    /\ ctx # <<>>
    /\ Top(ctx).kind = "KStmt"
    /\ ks[Top(ctx).blk].module
    /\ LET s == Top(ctx).blk
           list == Top(ks[s].stmt_stack)
           body == pop_stmt(list)
           kdef == KernelDef(body, ret_void(ks[s].has_return))
           k == [ks EXCEPT ![s].stmt_stack = Append(Front(@), <<kdef>>)]
       IN  ExitKStmt(s, k, "ValueError",
                     [NoOp EXCEPT !.op = "def_exit", !.blk = s,
                                  !.lhs = lhs_of(s, ks[s].lhs_tensors),
                                  !.pre = Len(ks[s].stmt_stack),
                                  !.list = list, !.fold = body,
                                  !.res = kdef])

Next ==
    \/ Enter
    \/ Emit
    \/ ReadFrom
    \/ if_
    \/ if_exit
    \/ else_
    \/ else_exit
    \/ elif_
    \/ elif_exit
    \/ while_
    \/ while_exit
    \/ for_
    \/ break_
    \/ return_
    \/ Exit

Spec == Init /\ [][Next]_vars

\* the traces of function definitions: def_ around blocks, statements,
\* reads, conditionals and return_
DefNext ==
    \/ def_
    \/ def_exit
    \/ return_
    \/ Enter
    \/ Exit
    \/ Emit
    \/ Write
    \/ ReadFrom
    \/ if_
    \/ if_exit

DefSpec == Init /\ [][DefNext]_vars

\* the traces that only open, read and close KStmts, with one more KStmt
\* and one more operation than Spec allows
DepNext ==
    \/ DepEnter
    \/ DepRead
    \/ DepExit

DepSpec == Init /\ [][DepNext]_vars

\* =================================================================
\* Properties
\* =================================================================

\* the operations that fold a scope with pop_stmt
PopOps == {"if_exit", "else_exit", "elif_exit", "while_exit", "__exit__"}

Popped == last.op \in PopOps

\* no entry of the list is a deferred wrapper
AllConcrete(list) == \A i \in 1..Len(list) : ~callable(list[i])

\* Seq(S1, Seq(S2, ... Seq(Sn-1, Sn))) of a non-empty list S1..Sn
RECURSIVE RightNested(_)
RightNested(list) ==
    IF Len(list) = 1 THEN list[1]
    ELSE <<"Block", list[1], RightNested(Tail(list))>>

\* the statements met by a left-to-right traversal of a sequence tree
RECURSIVE Traversal(_)
Traversal(stmt) ==
    IF stmt[1] = "Block" THEN Traversal(stmt[2]) \o Traversal(stmt[3])
    ELSE <<stmt>>

\* C1: when a scope holding a non-empty list of concrete statements S1..Sn
\* (no deferred wrapper) is folded, the list leaves the scope stack and the
\* fold is Sn for n = 1 and Seq(S1, Seq(S2, ... Seq(Sn-1, Sn))) otherwise; a
\* left-to-right traversal of the fold yields S1..Sn in emission order.
C1_FoldRightNested ==
    (Popped /\ last.list # <<>> /\ AllConcrete(last.list)) =>
        /\ last.fold = RightNested(last.list)
        /\ Traversal(last.fold) = last.list
        /\ Len(ks[last.blk].stmt_stack) = last.pre - 1

C1_Witness ==
    /\ Popped
    /\ Len(last.list) = 3
    /\ AllConcrete(last.list)
    /\ last.fold = <<"Block", last.list[1],
                     <<"Block", last.list[2], last.list[3]>>>>

\* the list pop_stmt folds: the popped list, with the no-op appended when
\* it is empty or ends in a deferred wrapper
Folded(list) ==
    IF list = <<>> THEN <<Evaluate0>>
    ELSE IF callable(list[Len(list)]) THEN Append(list, Evaluate0)
    ELSE list

\* the fold read from the left: a wrapper wraps the fold of the entries
\* after it, a statement is sequenced before the fold of the entries after it
RECURSIVE Spliced(_)
Spliced(list) ==
    IF Len(list) = 1 THEN list[1]
    ELSE IF list[1][1] = "Wrap"
         THEN <<"AttrStmt", list[1][2], list[1][3], Spliced(Tail(list))>>
         ELSE <<"Block", list[1], Spliced(Tail(list))>>

\* the entries met from the left in a fold, a wrapper counted where its
\* annotation node stands
RECURSIVE Entries(_)
Entries(stmt) ==
    IF stmt[1] = "Block" THEN Entries(stmt[2]) \o Entries(stmt[3])
    ELSE IF stmt[1] = "AttrStmt"
         THEN <<(<<"Wrap", stmt[2], stmt[3]>>)>> \o Entries(stmt[4])
         ELSE <<stmt>>

\* C2: folding a list that mixes concrete statements and deferred wrappers
\* applies each wrapper exactly once, to the fold of exactly the entries
\* emitted after it, and keeps every entry in emission order; [S1, w, S2]
\* folds to Seq(S1, w(S2)).
C2_WrapperSplicing ==
    Popped =>
        /\ last.fold = Spliced(Folded(last.list))
        /\ Entries(last.fold) = Folded(last.list)

C2_Witness ==
    /\ Popped
    /\ Len(last.list) = 3
    /\ ~callable(last.list[1])
    /\ callable(last.list[2])
    /\ ~callable(last.list[3])
    /\ last.fold = <<"Block", last.list[1],
                     <<"AttrStmt", last.list[2][2], last.list[2][3],
                       last.list[3]>>>>

\* some list of the KStmt's stmt_stack holds a Break entry: a scope in which
\* break_() was executed is still open
HasBreakEntry(list) == \E i \in 1..Len(list) : list[i] = BreakStmt

OpenBreakScope(b) ==
    \E k \in 1..Len(ks[b].stmt_stack) : HasBreakEntry(ks[b].stmt_stack[k])

\* C3: after break_() in a block every further emit into the block fails
\* with IllegalEmitAfterBreak until the scope the break was executed in has
\* closed, and leaves the scope stack as it was; once that scope has closed
\* emit succeeds again.
C3_BreakFinality ==
    (last.op = "emit" /\ last.blk # 0) =>
        IF OpenBreakScope(last.blk)
        THEN /\ err = "IllegalEmitAfterBreak"
             /\ Len(ks[last.blk].stmt_stack) = last.pre
        ELSE err = "ok"

\* the KStmts that were entered inside P and have closed
Children(P) == {c \in Blocks : ks[c].state = "closed" /\ ks[c].parent = P}

\* a KStmt has just closed inside an open parent, without an exception
ChildClosed == last.op = "__exit__" /\ err = "ok" /\ current # <<>>

\* every child closed inside P was absorbed by P and read nothing
IndependentChildren(P) ==
    /\ Children(P) = SeqSet(ks[P].subKStmts)
    /\ \A c \in Children(P) : ks[c].input_KStmts = {}

\* C4: when the children closed inside a parent P read from no other block
\* (their reconciled input_KStmts are empty), then after each of them has
\* closed P.last_subKStmts is exactly the set of those children and
\* P.input_KStmts holds none of them.
C4_IndependentChildren ==
    (ChildClosed /\ IndependentChildren(get_current)) =>
        /\ ks[get_current].last_subKStmts = Children(get_current)
        /\ ks[get_current].input_KStmts \cap Children(get_current) = {}

C4_Witness ==
    /\ ChildClosed
    /\ IndependentChildren(get_current)
    /\ Cardinality(Children(get_current)) = 2
    /\ ks[get_current].last_subKStmts = Children(get_current)

\* the else slot at the end of a conditional chain
RECURSIVE InnermostElse(_)
InnermostElse(if_stmt) ==
    IF if_stmt[4][1] = "IfThenElse" THEN InnermostElse(if_stmt[4])
    ELSE if_stmt[4]

\* the last entry of the KStmt's current scope is a conditional chain whose
\* innermost else slot is unset: an if_ or an elif_ has just closed there
FollowsIfOrElif(b) ==
    IF ks[b].stmt_stack[Len(ks[b].stmt_stack)] = <<>> THEN FALSE
    ELSE LET prev == Prev(b) IN
         IF prev[1] = "IfThenElse" THEN InnermostElse(prev) = NoneS ELSE FALSE

\* C5: if_(c1){A}; elif_(c2){B}; else_(){C} completes without error: an
\* else_ that follows an if_ or an elif_ is accepted (and fills the innermost
\* unset else slot of the chain).
C5_ElseAfterElif ==
    (last.op = "else_" /\ last.blk # 0 /\ err # "ok") =>
        ~FollowsIfOrElif(last.blk)

\* C6: inside an open block, for_(0, 5) as i: ... completes without error
\* and opens the loop's own scope, from which its exit appends one Loop node
\* to the enclosing scope.
C6_LoopTraceCompletes ==
    (last.op = "for_" /\ last.name = "i" /\ last.blk # 0) =>
        /\ err = "ok"
        /\ Len(ks[last.blk].stmt_stack) = last.pre + 1

\* the name of the n-th loop opened without an explicit name
AutoName(n) ==
    IF n = 1 THEN <<"i">>
    ELSE IF n = 2 THEN <<"j">>
    ELSE IF n = 3 THEN <<"k">>
    ELSE <<"i_", n - 4>>

\* C7: the n-th for_ a block opens without an explicit name advances the
\* block's counter of unnamed loops to n and names its loop variable i, j, k
\* for n = 1, 2, 3 and i_<n-4> from the fourth on.
C7_AutoLoopNames ==
    (last.op = "for_" /\ last.name = "i" /\ last.blk # 0) =>
        /\ ks[last.blk].for_ID >= 1
        /\ last.var = AutoName(ks[last.blk].for_ID)

ConstructExits == {"if_exit", "else_exit", "elif_exit", "while_exit"}

\* C9: a control construct (if_, else_, elif_, for_, while_) leaves the
\* block's stmt_stack as deep as it found it, so that a closing block
\* finds its stmt_stack one deep and folds its own outermost list.
C9_ScopesBalanced ==
    /\ last.op \in ConstructExits =>
           Len(ks[last.blk].stmt_stack) = last.depth
    /\ last.op = "__exit__" => last.pre = 1

\* the KStmts among the `with` statements entered and not left, innermost
\* last
OpenBlocks ==
    LET w == SelectSeq(ctx, LAMBDA c : c.kind = "KStmt")
    IN  [i \in 1..Len(w) |-> w[i].blk]

\* C10: KStmt._current is at every point the chain of KStmts entered and
\* not yet exited, innermost last; the exit of a KStmt removes that KStmt,
\* and when every `with` has been left the stack is empty again.
C10_CurrentIsOpenChain ==
    /\ current = OpenBlocks
    /\ last.op = "__exit__" => last.blk \notin SeqSet(current)
    /\ ctx = <<>> => current = <<>>

C10_Witness ==
    /\ last.op = "__exit__"
    /\ ctx = <<>>
    /\ current = <<>>
    /\ nblk = 3
    /\ ks[2].parent = 1
    /\ ks[3].parent = 2

\* the control constructs of KStmt b that were entered and not left
OpenConstructs(b, kinds) ==
    Cardinality({i \in 1..Len(ctx) : ctx[i].blk = b /\ ctx[i].kind \in kinds})

\* the loops of the open KStmt b whose scope is open: the while_ constructs
\* entered and not left, and the scopes for_ pushed (the lists of
\* stmt_stack that belong neither to the KStmt nor to a construct that
\* was entered)
OpenLoops(b) ==
    OpenConstructs(b, {"while_"})
    + (Len(ks[b].stmt_stack) - 1
       - OpenConstructs(b, {"if_", "else_", "elif_", "while_"}))

\* C11: in a block that may emit (has_break not set), break_() appends Break
\* and sets has_break exactly when a for_ or while_ scope of the block is
\* open at the call, the block's for_level being the number of its open
\* loops; otherwise it fails with BreakOutsideLoop and changes nothing.
C11_BreakNeedsOpenLoop ==
    [][(last'.op = "break_" /\ current # <<>> /\ ~ks[get_current].has_break)
        => LET b == get_current IN
           /\ ks[b].for_level = OpenLoops(b)
           /\ IF OpenLoops(b) > 0
              THEN /\ err' = "ok"
                   /\ ks'[b].stmt_stack = Appended(ks[b].stmt_stack, BreakStmt)
                   /\ ks'[b].has_break
              ELSE /\ err' = "BreakOutsideLoop"
                   /\ ks' = ks]_vars

\* C12: else_() invoked when the current scope list is empty, or when its
\* last entry is a statement that is no conditional, a deferred wrapper or
\* a conditional already completed by an else, fails with ElseWithoutIf and
\* leaves the scope stack as it was: same depth, same entries, the
\* preceding entry not popped.
C12_ElseWithoutIf ==
    [][(last'.op = "else_" /\ current # <<>>
        /\ ~FollowsIfOrElif(get_current))
        => /\ err' = "ElseWithoutIf"
           /\ ks'[get_current].stmt_stack = ks[get_current].stmt_stack
           /\ ctx' = ctx]_vars

C12_Witness ==
    /\ last.op = "else_"
    /\ err = "ElseWithoutIf"
    /\ last.blk # 0
    /\ HasPrev(last.blk)
    /\ Prev(last.blk)[1] = "IfThenElse"
    /\ Prev(last.blk)[4] # NoneS
    /\ Prev(last.blk)[4][1] # "IfThenElse"

\* C13: elif_(c) has the precondition of else_: when the last entry of the
\* current scope is a conditional chain whose final else-branch is already
\* set, elif_ fails with ElifWithoutIf, and the exit of an elif_ never
\* replaces or discards an else-branch that was set.
C13_ElifAfterElse ==
    [][/\ (last'.op = "elif_" /\ current # <<>>
           /\ ~FollowsIfOrElif(get_current))
          => /\ err' = "ElifWithoutIf"
             /\ ks'[get_current].stmt_stack = ks[get_current].stmt_stack
       /\ last'.op = "elif_exit"
          => InnermostElse(Top(ctx).prev) = NoneS]_vars

\* the operations that need an open KStmt
ControlOps == {"if_", "else_", "elif_", "for_", "while_", "break_", "return_"}

\* the error of a control operation invoked with no KStmt living
NoBlockError(opname) ==
    IF opname = "return_" THEN "ReturnWithoutReturnType" ELSE "NoOpenBlock"

\* C14: each of if_, else_, elif_, for_, while_, break_ and return_ invoked
\* while KStmt._current is empty fails at once (NoOpenBlock;
\* ReturnWithoutReturnType for return_): no scope is pushed, no statement is
\* emitted and KStmt._current is not changed.
C14_NoOpenBlock ==
    [][(current = <<>> /\ last'.op \in ControlOps)
        => /\ err' = NoBlockError(last'.op)
           /\ UNCHANGED <<current, ks, ctx, KStmt_ops, last_KStmts>>]_vars

C14_Witness ==
    /\ current = <<>>
    /\ KStmt_ops # <<>>
    /\ last.op = "return_"
    /\ err = "ReturnWithoutReturnType"

\* the operations that end the `with` block of a KStmt
CloseOps == {"__exit__", "def_exit"}

\* Schedule.KStmt_ops holds each closed top-level KStmt once;
\* Schedule.last_KStmts holds those of them that are in the reconciled
\* input_KStmts neither of themselves nor of a top-level KStmt closed later
RegistryOK ==
    /\ SeqSet(KStmt_ops) =
           {b \in Blocks : ks[b].state = "closed" /\ ks[b].parent = 0}
    /\ Cardinality(SeqSet(KStmt_ops)) = Len(KStmt_ops)
    /\ last_KStmts \subseteq SeqSet(KStmt_ops)
    /\ \A i \in 1..Len(KStmt_ops) :
           KStmt_ops[i] \in last_KStmts <=>
               \A j \in i..Len(KStmt_ops) :
                   KStmt_ops[i] \notin ks[KStmt_ops[j]].input_KStmts

\* C15: Schedule.KStmt_ops lists the closed top-level blocks in close order
\* and is only ever appended to (by the close of a top-level block);
\* Schedule.last_KStmts is a subset of it, and holds a top-level block X iff
\* X is in the reconciled input_KStmts neither of X itself nor of a
\* top-level block closed after X; the close of a block inside an open
\* parent changes neither collection.
C15_TopLevelRegistry ==
    [][/\ RegistryOK'
       /\ \/ UNCHANGED <<KStmt_ops, last_KStmts>>
          \/ /\ last'.op \in CloseOps
             /\ current' = <<>>
             /\ KStmt_ops' = Append(KStmt_ops, last'.blk)
       /\ (last'.op \in CloseOps /\ current' # <<>>)
          => UNCHANGED <<KStmt_ops, last_KStmts>>]_vars

C15_Witness ==
    /\ last.op = "__exit__"
    /\ Len(KStmt_ops) = 2
    /\ last_KStmts = {KStmt_ops[2]}
    /\ KStmt_ops[1] \in ks[KStmt_ops[2]].input_KStmts
    /\ ks[KStmt_ops[1]].subKStmts # <<>>

\* KStmt b is s, or a block entered inside s that is no function block and
\* lies in no function block defined inside s
RECURSIVE IsInside(_, _)
IsInside(b, s) ==
    IF b = s THEN TRUE
    ELSE IF ks[b].parent = 0 \/ ks[b].module THEN FALSE
    ELSE IsInside(ks[b].parent, s)

\* a return_ was executed while the body of the function block s was traced,
\* in s or in a block of its body (has_return is set by return_ alone and
\* never cleared); a return_ of a function defined inside s is not counted
ReturnTraced(s) ==
    \E b \in Blocks : IsInside(b, s) /\ ks[b].has_return

\* C16: for every callable traced by def_, the return-void flag of the
\* emitted KernelDef is true iff no return_ was executed at any point while
\* the body was traced, at any nesting of control constructs or blocks
\* inside the body.
C16_ReturnVoidFlag ==
    last.op = "def_exit" =>
        (last.res[3] <=> ~ReturnTraced(last.blk))

\* the KStmt that has just closed was reconciled: into the parent that is
\* open around it, or into the Schedule registry
Reconciled(s) ==
    IF current = <<>>
    THEN KStmt_ops # <<>> /\ Top(KStmt_ops) = s
    ELSE /\ ks[get_current].subKStmts # <<>>
         /\ Top(ks[get_current].subKStmts) = s

\* C17: after def_ has closed its function block, the block's input_KStmts
\* is the empty set whatever sub-blocks were opened and closed while the
\* body was traced; the block is still reconciled into an open parent or
\* the top-level registry by the normal close.
C17_FunctionInputsCleared ==
    last.op = "def_exit" =>
        /\ ks[last.blk].input_KStmts = {}
        /\ Reconciled(last.blk)

\* the dependency sets of a KStmt
DepSets(k) == <<k.input_KStmts, k.last_subKStmts, k.lhs_tensors>>

\* C18: when a block S closes while a parent P is open, with R the
\* reconciled inputs of S (S.input_KStmts \cup S.last_subKStmts) and the
\* values of P taken before the close, afterwards
\* P.input_KStmts = (P.input_KStmts \cup R) \ P.last_subKStmts and
\* P.last_subKStmts = (P.last_subKStmts \cup {S}) \ R, and the dependency
\* sets of every block other than S and P (the ancestors of P among them)
\* and the Schedule registry are unchanged.
C18_CloseFrame ==
    [][(last'.op = "__exit__" /\ err' = "ok" /\ current' # <<>>)
        => LET S == last'.blk
               P == Top(current')
               R == ks[S].input_KStmts \cup ks[S].last_subKStmts
           IN  /\ ks'[P].input_KStmts =
                      (ks[P].input_KStmts \cup R) \ ks[P].last_subKStmts
               /\ ks'[P].last_subKStmts =
                      (ks[P].last_subKStmts \cup {S}) \ R
               /\ \A b \in Blocks \ {S, P} : DepSets(ks'[b]) = DepSets(ks[b])
               /\ UNCHANGED <<KStmt_ops, last_KStmts>>]_vars

C18_Witness ==
    /\ last.op = "__exit__"
    /\ err = "ok"
    /\ Len(current) = 2
    /\ ks[last.blk].input_KStmts # {}
    /\ ks[get_current].input_KStmts = ks[last.blk].input_KStmts
    /\ ks[get_current].last_subKStmts = {last.blk}

\* KStmt x is b or encloses b
RECURSIVE Encloses(_, _)
Encloses(x, b) ==
    IF x = b THEN TRUE
    ELSE IF ks[b].parent = 0 THEN FALSE
    ELSE Encloses(x, ks[b].parent)

\* no block has among its inputs itself or a block that encloses it: every
\* read so far was of a block outside the reader's own lineage
OutsideReadsOnly ==
    \A b \in Blocks : \A x \in ks[b].input_KStmts : ~Encloses(x, b)

\* C19: while a block P is open, P.input_KStmts never holds one of P's own
\* already-closed subKStmts: after every close of a child into P, whatever
\* the sequence of child closes (several later children reading the same
\* earlier child included), the two are disjoint.  Stated for the traces
\* whose reads are of blocks outside the reader's lineage.
C19_InputsExcludeSubBlocks ==
    (ChildClosed /\ OutsideReadsOnly) =>
        ks[get_current].input_KStmts \cap SeqSet(ks[get_current].subKStmts)
            = {}

\* P.last_subKStmts holds closed sub-blocks of P only: those that are in the
\* reconciled input_KStmts neither of themselves nor of a sub-block of P
\* closed after them
LastWritersOK(P) ==
    LET sub == ks[P].subKStmts IN
    /\ ks[P].last_subKStmts \subseteq SeqSet(sub)
    /\ \A i \in 1..Len(sub) :
           sub[i] \in ks[P].last_subKStmts <=>
               \A j \in i..Len(sub) : sub[i] \notin ks[sub[j]].input_KStmts

\* C20: for every open block P, P.last_subKStmts is a subset of
\* P.subKStmts, and a closed sub-block X of P is in P.last_subKStmts iff X
\* is in the reconciled input_KStmts neither of X itself nor of a sub-block
\* of P closed after X; a sub-block removed from last_subKStmts is never
\* added back.
C20_LastWriters ==
    [][\A P \in Blocks :
        /\ ks'[P].state = "open" => LastWritersOK(P)'
        /\ \A X \in SeqSet(ks[P].subKStmts) :
               X \notin ks[P].last_subKStmts
                   => X \notin ks'[P].last_subKStmts]_vars

C20_Witness ==
    /\ current # <<>>
    /\ Len(ks[get_current].subKStmts) = 2
    /\ ks[get_current].last_subKStmts = {ks[get_current].subKStmts[2]}
    /\ ks[get_current].subKStmts[1]
           \in ks[ks[get_current].subKStmts[2]].input_KStmts
    /\ last.op = "emit"

\* the operations that open a loop
LoopOps == {"for_", "while_"}

\* C21: a for_ or while_ in an open block is entered, and when break_() was
\* executed directly in its body the loop's exit folds the loop scope,
\* clears the block's has_break and then emits the loop statement into the
\* enclosing scope without error, has_break being false afterwards; the
\* exits of if_, else_ and elif_ clear has_break in the same way.
C21_ExitClearsBreak ==
    /\ (last.op \in LoopOps /\ last.blk # 0) => err = "ok"
    /\ last.op \in ConstructExits =>
           /\ err = "ok"
           /\ ~ks[last.blk].has_break
           /\ Len(ks[last.blk].stmt_stack) = last.pre - 1
           /\ Top(Top(ks[last.blk].stmt_stack)) = last.res
    /\ last.op = "while_exit" => last.res[3] = last.fold

\* the annotation nodes of a statement all wrap a statement: none wraps a
\* deferred wrapper or nothing
RECURSIVE WrapsStatements(_)
WrapsStatements(stmt) ==
    IF stmt[1] = "Block"
    THEN WrapsStatements(stmt[2]) /\ WrapsStatements(stmt[3])
    ELSE IF stmt[1] = "AttrStmt"
         THEN /\ stmt[4][1] \notin {"Wrap", "None"}
              /\ WrapsStatements(stmt[4])
         ELSE stmt[1] \notin {"Wrap", "None"}

\* C22: pop_stmt on an empty list returns Evaluate(0), and on a list whose
\* last entry is a deferred wrapper w it folds as if Evaluate(0) had been
\* emitted after w ([S1, w] folds to Block(S1, w(Evaluate(0))), [w] to
\* w(Evaluate(0))); pop_stmt never returns a wrapper and never applies a
\* wrapper to nothing.
C22_FoldPadsNoOp ==
    (last.op \in PopOps \cup {"def_exit"}) =>
        /\ last.list = <<>> => last.fold = <<"Evaluate", 0>>
        /\ (last.list # <<>> /\ last.list[Len(last.list)][1] = "Wrap")
           => last.fold = Spliced(Append(last.list, <<"Evaluate", 0>>))
        /\ WrapsStatements(last.fold)

C22_Witness ==
    /\ Popped
    /\ Len(last.list) = 2
    /\ last.list[1][1] = "Stmt"
    /\ last.list[2][1] = "Wrap"
    /\ last.fold = <<"Block", last.list[1],
                     <<"AttrStmt", last.list[2][2], last.list[2][3],
                       <<"Evaluate", 0>>>>>>

\* the annotation node of KStmt buf in a statement (NoneS when there is
\* none)
RECURSIVE AttrOf(_, _)
AttrOf(stmt, buf) ==
    IF stmt[1] = "AttrStmt"
    THEN IF stmt[2] = buf THEN stmt ELSE AttrOf(stmt[4], buf)
    ELSE IF stmt[1] = "Block"
         THEN IF AttrOf(stmt[2], buf) # <<"None">> THEN AttrOf(stmt[2], buf)
              ELSE AttrOf(stmt[3], buf)
         ELSE <<"None">>

\* what follows position i of a list when the list is folded: the entries
\* emitted after it, or Evaluate(0) when there are none
FoldAfter(list, i) ==
    IF i = Len(list) THEN <<"Evaluate", 0>>
    ELSE Spliced(Folded(SubSeq(list, i + 1, Len(list))))

\* C24: when a child closes inside an open parent, exactly one deferred
\* wrapper is appended to the parent's current top scope list, at the
\* position of the close; when that scope is folded, the child's
\* attach_scope node wraps exactly the statements emitted into the scope
\* after the child's close (Evaluate(0) when there are none) and none of
\* those emitted before it: the entries under the node are the entries
\* after position i, and the i entries up to the wrapper stand outside it.
C24_WrapperPosition ==
    [][/\ (last'.op = "__exit__" /\ err' = "ok" /\ current' # <<>>)
          => LET P == Top(current')
                 old == ks[P].stmt_stack
                 new == ks'[P].stmt_stack
             IN  /\ Len(new) = Len(old)
                 /\ \A d \in 1..(Len(old) - 1) : new[d] = old[d]
                 /\ new[Len(new)] =
                        Append(old[Len(old)], <<"Wrap", last'.blk, P>>)
       /\ last'.op \in PopOps
          => \A i \in 1..Len(last'.list) :
                 last'.list[i][1] = "Wrap" =>
                     LET node == AttrOf(last'.fold, last'.list[i][2]) IN
                     /\ node # <<"None">>
                     /\ node[4] = FoldAfter(last'.list, i)
                     /\ Entries(node[4]) =
                            SubSeq(Folded(last'.list), i + 1,
                                   Len(Folded(last'.list)))
                     /\ Len(Entries(last'.fold)) =
                            i + Len(Entries(node[4]))]_vars

C24_Witness ==
    /\ Popped
    /\ Len(last.list) = 3
    /\ last.list[1][1] = "Stmt"
    /\ last.list[2][1] = "Wrap"
    /\ last.list[3][1] = "Wrap"
    /\ AttrOf(last.fold, last.list[2][2])[4] =
           <<"AttrStmt", last.list[3][2], last.list[3][3], <<"Evaluate", 0>>>>

\* a KStmt has just closed into the parent that is open around it
Absorbed == current # <<>> /\ err # "IllegalEmitAfterBreak"

\* C23: a block's lhs_tensors never shrinks; every block's lhs_tensors
\* contains the lhs_tensors of each of its closed subKStmts (hence of every
\* closed descendant); and the close of a child adds to the parent exactly
\* the child's lhs_tensors and nothing else.
C23_WrittenBuffers ==
    [][/\ \A b \in Blocks : ks[b].lhs_tensors \subseteq ks'[b].lhs_tensors
       /\ \A P \in Blocks : \A X \in SeqSet(ks'[P].subKStmts) :
              ks'[X].lhs_tensors \subseteq ks'[P].lhs_tensors
       /\ (last'.op \in CloseOps /\ Absorbed')
          => ks'[Top(current')].lhs_tensors =
                 ks[Top(current')].lhs_tensors
                 \cup ks[last'.blk].lhs_tensors]_vars

C23_Witness ==
    /\ last.op \in CloseOps
    /\ Absorbed
    /\ ks[last.blk].lhs_tensors # {}
    /\ ks[last.blk].subKStmts # <<>>
    /\ \E t \in ks[get_current].lhs_tensors : t \notin ks[last.blk].lhs_tensors
    /\ \E t \in ks[last.blk].lhs_tensors :
           t \notin ks[ks[last.blk].subKStmts[1]].lhs_tensors

\* the argument positions of function block s that were assigned to while
\* its body was traced, in s or in a block closed inside it
WrittenArgs(s) ==
    {i \in 1..MaxArgs :
        \E b \in Blocks :
            Encloses(s, b) /\ <<s, i>> \in ks[b].lhs_tensors}

====
